---- MODULE Spec2Model ----
(***************************************************************************)
(* Model of rlax/_src/exploration.py: episodic_memory_intrinsic_rewards   *)
(* and the IntrinsicRewardState it threads from call to call.             *)
(*                                                                         *)
(* Arrays are records [shape, rows]: shape is the tuple of dimensions,    *)
(* rows the sequence of D-dimensional rows of a rank-2 array (empty for   *)
(* an array of another rank, whose elements no line of the function       *)
(* reads before the call ends).  Memory slot j of the source (0-based)    *)
(* is memory[j + 1] here.  Floats are modelled by the integers, with one  *)
(* designated value for jnp.inf.                                           *)
(***************************************************************************)
EXTENDS Integers, Sequences, FiniteSets

VARIABLES
    held,           \* the caller's IntrinsicRewardState: None or Some(state)
    num_neighbors,  \* K, the same in every call of a run
    float_args,     \* the float arguments, the same in every call of a run
    last,           \* what the last call was given and what it returned
    inserted,       \* every embedding inserted since no prior state, in order
    oversize,       \* some batch so far had more rows than max_memory_size
    calls,          \* number of calls that returned a state
    ou,             \* a call of add_ornstein_uhlenbeck_noise and its result
    other           \* a second actor's call on the state the last call was given

vars == <<held, num_neighbors, float_args, last, inserted, oversize, calls, ou, other>>

-----------------------------------------------------------------------------
(* Bounds of the exploration. *)

MaxCalls == 2
MaxBatch == 3
MaxInserted == 6

\* max_memory_size values and num_neighbors values a run may use
MemSizes == {2, 3}
Neighbors == {1, 2, 3}

\* the float arguments a run may use, each a fraction <<n, d>>
Hypers ==
    {[reward_scale |-> <<2, 1>>, constant |-> <<1, 1>>, epsilon |-> <<1, 4>>,
      cluster_distance |-> <<1, 2>>, max_similarity |-> <<2, 1>>]}

\* rows a batch of embeddings is drawn from: dimension 1 and dimension 2
Rows == {<<0>>, <<1>>, <<1, 1>>}

-----------------------------------------------------------------------------
(* Values. *)

\* jnp.inf: absorbing for + and for the squared difference
Inf == 1000000

None == <<>>
Some(x) == <<x>>

ExtAdd(a, b) == IF a = Inf \/ b = Inf THEN Inf ELSE a + b

RECURSIVE SumSeq(_)
SumSeq(s) == IF s = <<>> THEN 0 ELSE ExtAdd(s[1], SumSeq(Tail(s)))

\* The floats of the reward are modelled by pairs <<n, d>>: a fraction n / d
\* in lowest terms with d > 0 for a finite number other than zero, <<0, 1>>
\* for 0.0 and <<0, -1>> for -0.0, <<1, 0>> for inf, <<-1, 0>> for -inf and
\* <<0, 0>> for nan.  The arithmetic of finite numbers is exact; the special
\* values follow IEEE 754.
PosZero == <<0, 1>>
NegZero == <<0, -1>>
PosInf == <<1, 0>>
NegInf == <<-1, 0>>
NaN == <<0, 0>>

IsNaN(a) == a = NaN

IsInf(a) == a[2] = 0 /\ a[1] # 0

Finite(a) == a[2] # 0

IsZero(a) == a[1] = 0 /\ a[2] # 0

\* the sign bit of a float that is not nan
Negative(a) == a[1] < 0 \/ (a[1] = 0 /\ a[2] < 0)

SignedZero(negative) == IF negative THEN NegZero ELSE PosZero

SignedInf(negative) == IF negative THEN NegInf ELSE PosInf

Abs(n) == IF n < 0 THEN -n ELSE n

RECURSIVE Gcd(_, _)
Gcd(a, b) == IF b = 0 THEN a ELSE Gcd(b, a % b)

\* the float of the integer ratio n / d: 0.0 when n is 0; a ratio over 0 is
\* inf, -inf or nan by the sign of n
Frac(n, d) ==
    IF d = 0
    THEN IF n > 0 THEN PosInf ELSE IF n < 0 THEN NegInf ELSE NaN
    ELSE LET g == Gcd(Abs(n), Abs(d))
             sgn == IF d < 0 THEN -1 ELSE 1
         IN  <<(sgn * n) \div g, (sgn * d) \div g>>

\* a distance or a count as a float
Float(n) == IF n = Inf THEN PosInf ELSE <<n, 1>>

\* -a
FNeg(a) ==
    IF IsNaN(a) THEN NaN
    ELSE IF a[1] = 0 THEN <<0, -a[2]>>
    ELSE <<-a[1], a[2]>>

\* a + b: inf + -inf is nan; a sum of zeros is -0.0 only if both are -0.0
FAdd(a, b) ==
    IF IsNaN(a) \/ IsNaN(b) THEN NaN
    ELSE IF IsInf(a) THEN (IF IsInf(b) /\ b # a THEN NaN ELSE a)
    ELSE IF IsInf(b) THEN b
    ELSE IF IsZero(a) /\ IsZero(b) THEN (IF a = b THEN a ELSE PosZero)
    ELSE IF IsZero(a) THEN b
    ELSE IF IsZero(b) THEN a
    ELSE Frac(a[1] * b[2] + b[1] * a[2], a[2] * b[2])

\* a - b
FSub(a, b) == FAdd(a, FNeg(b))

\* a * b: 0 * inf is nan; the sign is the product of the signs
FMul(a, b) ==
    IF IsNaN(a) \/ IsNaN(b) THEN NaN
    ELSE IF (IsInf(a) /\ IsZero(b)) \/ (IsZero(a) /\ IsInf(b)) THEN NaN
    ELSE IF IsInf(a) \/ IsInf(b) THEN SignedInf(Negative(a) # Negative(b))
    ELSE IF IsZero(a) \/ IsZero(b) THEN SignedZero(Negative(a) # Negative(b))
    ELSE Frac(a[1] * b[1], a[2] * b[2])

\* a / b: inf / inf and 0 / 0 are nan, a finite number over inf is a zero and
\* a number other than 0 over a zero is inf, each with the sign of the
\* quotient
FDiv(a, b) ==
    IF IsNaN(a) \/ IsNaN(b) THEN NaN
    ELSE IF (IsInf(a) /\ IsInf(b)) \/ (IsZero(a) /\ IsZero(b)) THEN NaN
    ELSE IF IsInf(a) \/ IsZero(b) THEN SignedInf(Negative(a) # Negative(b))
    ELSE IF IsInf(b) \/ IsZero(a) THEN SignedZero(Negative(a) # Negative(b))
    ELSE Frac(a[1] * b[2], a[2] * b[1])

\* a < b: false when either is nan; -0.0 is not less than 0.0
FLess(a, b) ==
    IF IsNaN(a) \/ IsNaN(b) THEN FALSE
    ELSE IF IsInf(a) THEN a = NegInf /\ b # NegInf
    ELSE IF IsInf(b) THEN b = PosInf
    ELSE a[1] * Abs(b[2]) < b[1] * Abs(a[2])

\* jnp.maximum(a, 0): nan stays nan, a zero or a negative number gives 0.0
FMax0(a) ==
    IF IsNaN(a) THEN NaN
    ELSE IF FLess(PosZero, a) THEN a
    ELSE PosZero

\* jnp.sum over the last axis, from 0.0
RECURSIVE FSum(_)
FSum(s) == IF s = <<>> THEN PosZero ELSE FAdd(s[1], FSum(Tail(s)))

Rank(a) == Len(a.shape)

\* a.shape[-1]; an IndexError for a rank-0 array (guarded by the callers)
LastDim(a) == a.shape[Len(a.shape)]

\* a.shape[0]
FirstDim(a) == a.shape[1]

RowsOfDim(d) == {r \in Rows : Len(r) = d}

Dims == {Len(r) : r \in Rows}

\* the [M, D] batches
Batches ==
    UNION {{[shape |-> <<m, d>>, rows |-> rs] : rs \in [1..m -> RowsOfDim(d)]} :
           m \in 0..MaxBatch, d \in Dims}

\* arrays that are not rank-2: a scalar, vectors, a rank-3 array
IllRanked ==
    {[shape |-> sh, rows |-> <<>>] : sh \in {<<>>, <<1>>, <<2>>, <<1, 1, 1>>}}

Embeddings == Batches \cup IllRanked

-----------------------------------------------------------------------------
(* episodic_memory.knn_query, the collaborator of the function. *)

\* squared Euclidean distance of a memory row and a query
RECURSIVE SqDist(_, _)
SqDist(x, y) ==
    IF x = <<>> THEN 0
    ELSE IF x[1] = Inf \/ y[1] = Inf THEN Inf
    ELSE ExtAdd((x[1] - y[1]) * (x[1] - y[1]), SqDist(Tail(x), Tail(y)))

Min(S) == CHOOSE x \in S : \A y \in S : x <= y

RemoveAt(s, i) == SubSeq(s, 1, i - 1) \o SubSeq(s, i + 1, Len(s))

\* the k smallest values of s in ascending order, padded with Inf
RECURSIVE KSmallest(_, _)
KSmallest(s, k) ==
    IF k = 0 THEN <<>>
    ELSE IF s = <<>> THEN <<Inf>> \o KSmallest(s, k - 1)
    ELSE LET m == Min({s[i] : i \in 1..Len(s)})
             i == CHOOSE j \in 1..Len(s) : s[j] = m
         IN  <<m>> \o KSmallest(RemoveAt(s, i), k - 1)

\* mutant of knn_query: queries of any rank are accepted
knn_query_any_rank(data, query_points, K) ==
    [ok |-> TRUE,
     neighbor_neg_distances |->
        [p \in 1..Len(query_points.rows) |->
            KSmallest([j \in 1..Len(data) |->
                          SqDist(data[j], query_points.rows[p])], K)]]

\* for each query the squared distances to its K nearest rows of data;
\* it takes a [C, D] data and an [M, D] batch of queries
knn_query(data, query_points, K) ==
    [ok |-> Rank(query_points) = 2,
     neighbor_neg_distances |->
        [p \in 1..Len(query_points.rows) |->
            KSmallest([j \in 1..Len(data) |->
                          SqDist(data[j], query_points.rows[p])], K)]]

-----------------------------------------------------------------------------
(* episodic_memory_intrinsic_rewards, step by step. *)

ZeroRow(d) == [i \in 1..d |-> 0]
InfRow(d) == [i \in 1..d |-> Inf]

\* memory.at[:num_neighbors, :].set(padding) needs the K rows of padding to
\* fit the rows the slice selects
CanPad(max_memory_size, K) == K <= max_memory_size

\* mutants of InitialState: no zero padding; one row of padding too few
InitialStateNoPad(max_memory_size, d, K) ==
    [memory |-> [j \in 1..max_memory_size |-> InfRow(d)],
     next_memory_index |-> 0,
     distance_sum |-> 0,
     distance_count |-> 0]

InitialStatePadOneLess(max_memory_size, d, K) ==
    [memory |-> [j \in 1..max_memory_size |->
                    IF j <= K - 1 THEN ZeroRow(d) ELSE InfRow(d)],
     next_memory_index |-> 0,
     distance_sum |-> 0,
     distance_count |-> 0]

\* the state built when none is given: memory of jnp.inf, its first
\* num_neighbors rows set to zero, the three scalars at their default 0
InitialState(max_memory_size, d, K) ==
    [memory |-> [j \in 1..max_memory_size |->
                    IF j <= K THEN ZeroRow(d) ELSE InfRow(d)],
     next_memory_index |-> 0,
     distance_sum |-> 0,
     distance_count |-> 0]

\* mutant of AssertShape: only the embedding dimension is compared
AssertShapeColsOnly(memory, max_memory_size, d) ==
    \A j \in 1..Len(memory) : Len(memory[j]) = d

\* chex.assert_shape(memory, (max_memory_size, embeddings.shape[-1]))
AssertShape(memory, max_memory_size, d) ==
    /\ Len(memory) = max_memory_size
    /\ \A j \in 1..Len(memory) : Len(memory[j]) = d

StartIndex(state) == state.next_memory_index % Len(state.memory)

\* mutant of Indices: the slot numbers are not wrapped
IndicesUnwrapped(start_index, m, size) == [p \in 1..m |-> p - 1 + start_index]

\* mutant of Indices: every batch is written from slot 0
IndicesFromZero(start_index, m, size) == [p \in 1..m |-> (p - 1) % size]

\* (jnp.arange(embeddings.shape[0]) + start_index) % memory.shape[0]
Indices(start_index, m, size) == [p \in 1..m |-> (p - 1 + start_index) % size]

\* mutant of QueriedMemory, defined below: the query is made after the batch
\* is written
QueriedMemoryAfterInsert(state, indices, rows) ==
    [j \in 1..Len(state.memory) |->
        LET cands == {p \in 1..Len(rows) : indices[p] = j - 1}
        IN  IF cands = {} THEN state.memory[j]
            ELSE rows[CHOOSE p \in cands : \A q \in cands : q <= p]]

\* memory.at[indices].set(embeddings): a slot named by several indices takes
\* the row of one of them, which one is not specified
ScatterSet(memory, indices, rows) ==
    {mem \in [1..Len(memory) -> {memory[j] : j \in 1..Len(memory)}
                                  \cup {rows[p] : p \in 1..Len(rows)}] :
        \A j \in 1..Len(memory) :
            LET cands == {p \in 1..Len(rows) : indices[p] = j - 1}
            IN  IF cands = {} THEN mem[j] = memory[j]
                ELSE \E p \in cands : mem[j] = rows[p]}

\* the memory knn_query is given: the state's, as it is before the batch
\* is written (the query is made first, the insertion follows it)
QueriedMemory(state, indices, rows) == state.memory

\* start_index + embeddings.shape[0] % max_memory_size
NextMemoryIndex(start_index, m, max_memory_size) ==
    start_index + (m % max_memory_size)

\* mutant of DistanceSum: the sum is started anew at each call
DistanceSumReset(distance_sum, nn_distances_sq) ==
    SumSeq([p \in 1..Len(nn_distances_sq) |-> SumSeq(nn_distances_sq[p])])

\* mutant of DistanceSum: the batch's distances are subtracted
DistanceSumSubtracted(distance_sum, nn_distances_sq) ==
    distance_sum
      - SumSeq([p \in 1..Len(nn_distances_sq) |-> SumSeq(nn_distances_sq[p])])

\* distance_sum += jnp.sum(nn_distances_sq)
DistanceSum(distance_sum, nn_distances_sq) ==
    ExtAdd(distance_sum,
           SumSeq([p \in 1..Len(nn_distances_sq) |-> SumSeq(nn_distances_sq[p])]))

\* mutant of DistanceCount: the batch is not counted
DistanceCountUnchanged(distance_count, nn_distances_sq) == distance_count

\* mutant of DistanceCount: one per embedding instead of one per distance
DistanceCountPerRow(distance_count, nn_distances_sq) ==
    distance_count + Len(nn_distances_sq)

\* distance_counts += nn_distances_sq.size
DistanceCount(distance_count, nn_distances_sq) ==
    distance_count
      + SumSeq([p \in 1..Len(nn_distances_sq) |-> Len(nn_distances_sq[p])])

\* mean_distance = distance_sum / distance_counts
MeanDistance(distance_sum, distance_counts) ==
    FDiv(Float(distance_sum), Float(distance_counts))

\* nn_distances_sq / (mean_distance + constant), less cluster_distance,
\* not below 0
DistanceRate(d, mean_distance, hyper) ==
    FMax0(FSub(FDiv(Float(d), FAdd(mean_distance, hyper.constant)),
               hyper.cluster_distance))

\* epsilon / (distance_rate + epsilon)
KernelOutput(distance_rate, hyper) ==
    FDiv(hyper.epsilon, FAdd(distance_rate, hyper.epsilon))

\* jnp.sqrt(jnp.sum(kernel_output, axis=-1)) + constant, for one embedding;
\* the root is kept unevaluated: the value is sqrt(sqrt_of) + plus
Similarity(distances, mean_distance, hyper) ==
    [sqrt_of |-> FSum([k \in 1..Len(distances) |->
                          KernelOutput(DistanceRate(distances[k], mean_distance,
                                                    hyper), hyper)]),
     plus |-> hyper.constant]

\* sqrt(similarity.sqrt_of) + similarity.plus is nan: the root of nan or of
\* a negative number, a nan term, or inf + -inf
SimilarityIsNaN(similarity) ==
    \/ IsNaN(similarity.sqrt_of)
    \/ FLess(similarity.sqrt_of, PosZero)
    \/ IsNaN(similarity.plus)
    \/ (similarity.sqrt_of = PosInf /\ similarity.plus = NegInf)

\* sqrt(similarity.sqrt_of) + similarity.plus is inf, of one that is not nan
SimilarityIsPosInf(similarity) ==
    similarity.sqrt_of = PosInf \/ similarity.plus = PosInf

\* mutant of MaxSimilarityReached: the comparison is turned around
MaxSimilarityReachedBelow(similarity, max_similarity) ==
    /\ ~SimilarityIsNaN(similarity)
    /\ ~IsNaN(max_similarity)
    /\ IF SimilarityIsPosInf(similarity) THEN FALSE
       ELSE IF similarity.plus = NegInf THEN max_similarity # NegInf
       ELSE IF IsInf(max_similarity) THEN max_similarity = PosInf
       ELSE LET gap == FSub(max_similarity, similarity.plus)
            IN  /\ ~FLess(gap, PosZero)
                /\ FLess(similarity.sqrt_of, FMul(gap, gap))

\* similarity > max_similarity; a comparison with nan is false.  Of finite
\* numbers sqrt(s) + c > m is decided as m - c < 0 or (m - c)^2 < s
MaxSimilarityReached(similarity, max_similarity) ==
    /\ ~SimilarityIsNaN(similarity)
    /\ ~IsNaN(max_similarity)
    /\ IF SimilarityIsPosInf(similarity) THEN max_similarity # PosInf
       ELSE IF similarity.plus = NegInf THEN FALSE
       ELSE IF IsInf(max_similarity) THEN max_similarity = NegInf
       ELSE LET gap == FSub(max_similarity, similarity.plus)
            IN  \/ FLess(gap, PosZero)
                \/ FLess(FMul(gap, gap), similarity.sqrt_of)

\* jnp.where(max_similarity_reached, 0, 1 / similarity) * reward_scale: the
\* value is scale * 0 if zero, else scale * (1 / over)
Reward(similarity, hyper) ==
    [zero |-> MaxSimilarityReached(similarity, hyper.max_similarity),
     scale |-> hyper.reward_scale,
     over |-> similarity]

\* mutant of PriorAfterCall: the call updates the state it was given in place
PriorAfterCallInPlace(prior, new) ==
    IF prior = None THEN None ELSE Some(new)

\* the state object the caller passed in, as it is once the call returned:
\* .at[].set() copies the memory and the sums are rebound to new values, so
\* the object is left as it was
PriorAfterCall(prior, new) == prior

NoState == InitialState(1, 1, 0)

Failure(err) ==
    [ok |-> FALSE, error |-> err, queried |-> None, start_index |-> 0,
     indices |-> <<>>, nn_distances_sq |-> <<>>, divisor |-> 0,
     mean_distance |-> NaN, reward |-> <<>>, state |-> NoState]

\* the outcomes of one call: a failure, or the reward and the returned state
\* with what the call queried
episodic_memory_intrinsic_rewards(embeddings, K, hyper, prior, max_memory_size) ==
    IF Rank(embeddings) = 0 THEN {Failure("IndexError")}
    ELSE IF prior = None /\ ~CanPad(max_memory_size, K)
    THEN {Failure("padding")}
    ELSE IF prior # None
            /\ ~AssertShape(prior[1].memory, max_memory_size, LastDim(embeddings))
    THEN {Failure("assert_shape")}
    ELSE
      LET state == IF prior = None
                   THEN InitialState(max_memory_size, LastDim(embeddings), K)
                   ELSE prior[1]
          start_index == StartIndex(state)
          indices == Indices(start_index, Len(embeddings.rows), Len(state.memory))
          knn_query_result ==
              knn_query(QueriedMemory(state, indices, embeddings.rows),
                        embeddings, K)
          nn_distances_sq == knn_query_result.neighbor_neg_distances
          distance_sum == DistanceSum(state.distance_sum, nn_distances_sq)
          distance_counts == DistanceCount(state.distance_count, nn_distances_sq)
          mean_distance == MeanDistance(distance_sum, distance_counts)
      IN  IF ~knn_query_result.ok THEN {Failure("knn_query")}
          ELSE {[ok |-> TRUE, error |-> "", queried |-> Some(state),
                 start_index |-> start_index,
                 indices |-> indices,
                 nn_distances_sq |-> nn_distances_sq,
                 divisor |-> distance_counts,
                 mean_distance |-> mean_distance,
                 reward |->
                    [p \in 1..Len(nn_distances_sq) |->
                        Reward(Similarity(nn_distances_sq[p], mean_distance,
                                          hyper), hyper)],
                 state |->
                    [memory |-> memory,
                     next_memory_index |->
                        NextMemoryIndex(start_index, FirstDim(embeddings),
                                        max_memory_size),
                     distance_sum |-> distance_sum,
                     distance_count |-> distance_counts]] :
               memory \in ScatterSet(state.memory, indices, embeddings.rows)}

-----------------------------------------------------------------------------
(* add_ornstein_uhlenbeck_noise.  A vector is a record [rank, float, vals]:
   its rank, whether its dtype is a float, and its elements as fractions. *)

\* jax.random.normal(key, shape=action.shape): a sample fixed by the key
Normal(key, n) == [i \in 1..n |-> <<((key + i) % 3) - 1, 1>>]

\* mutant of NoiseT: damping in the place of 1 - damping
NoiseTDampingOnly(noise_tm1, damping, stddev, normal) ==
    [i \in 1..Len(noise_tm1) |->
        FAdd(FMul(damping, noise_tm1[i]), FMul(normal[i], stddev))]

\* noise_t = (1. - damping) * noise_tm1 + normal * stddev
NoiseT(noise_tm1, damping, stddev, normal) ==
    [i \in 1..Len(noise_tm1) |->
        FAdd(FMul(FSub(<<1, 1>>, damping), noise_tm1[i]),
             FMul(normal[i], stddev))]

\* the noisy action, or the failure of one of the two assertions
add_ornstein_uhlenbeck_noise(key, action, noise_tm1, damping, stddev) ==
    IF action.rank # 1 \/ noise_tm1.rank # 1
    THEN [ok |-> FALSE, error |-> "assert_rank", value |-> <<>>]
    ELSE IF ~action.float \/ ~noise_tm1.float
    THEN [ok |-> FALSE, error |-> "assert_type", value |-> <<>>]
    ELSE LET noise_t == NoiseT(noise_tm1.vals, damping, stddev,
                               Normal(key, Len(action.vals)))
         IN  [ok |-> TRUE, error |-> "",
              value |-> [i \in 1..Len(action.vals) |->
                            FAdd(action.vals[i], noise_t[i])]]

\* the inputs of the calls explored: vectors of one or two elements
Keys == {0, 1, 2}
Dampings == {<<0, 1>>, <<1, 2>>, <<1, 1>>}
Stddevs == {<<0, 1>>, <<1, 1>>}
VectorLengths == {1, 2}
ActionValues == {<<-1, 1>>, <<0, 1>>, <<3, 2>>}
NoiseValues == {<<-1, 1>>, <<0, 1>>, <<1, 2>>}

Vectors(values) ==
    UNION {{[rank |-> 1, float |-> TRUE, vals |-> v] : v \in [1..n -> values]} :
           n \in VectorLengths}

\* a rank-2 array and an integer vector, which the assertions reject
BadVectors ==
    {[rank |-> 2, float |-> TRUE, vals |-> <<>>],
     [rank |-> 1, float |-> FALSE, vals |-> <<>>]}

NoOU ==
    [called |-> FALSE, key |-> 0,
     action |-> [rank |-> 1, float |-> TRUE, vals |-> <<>>],
     noise_tm1 |-> [rank |-> 1, float |-> TRUE, vals |-> <<>>],
     damping |-> <<0, 1>>, stddev |-> <<0, 1>>,
     out |-> [ok |-> FALSE, error |-> "", value |-> <<>>]]

-----------------------------------------------------------------------------
(* The caller: one call after another, each on the state the last returned. *)

NoCall ==
    [called |-> FALSE, shape |-> <<>>, max_memory_size |-> 0, prior |-> None,
     prior_after |-> None, out |-> Failure("")]

NoOther ==
    [called |-> FALSE, embeddings |-> [shape |-> <<>>, rows |-> <<>>],
     out |-> Failure("")]

Init ==
    /\ held = None
    /\ num_neighbors \in Neighbors
    /\ float_args \in Hypers
    /\ last = NoCall
    /\ inserted = <<>>
    /\ oversize = FALSE
    /\ calls = 0
    /\ ou = NoOU
    /\ other = NoOther

\* a call that raises ends the run: the exception is not handled
Call(embeddings, max_memory_size) ==
    /\ calls < MaxCalls
    /\ Len(inserted) + Len(embeddings.rows) <= MaxInserted
    /\ last.called => last.out.ok
    /\ \E out \in episodic_memory_intrinsic_rewards(
                     embeddings, num_neighbors, float_args, held, max_memory_size) :
        /\ last' = [called |-> TRUE, shape |-> embeddings.shape,
                    max_memory_size |-> max_memory_size, prior |-> held,
                    prior_after |-> PriorAfterCall(held, out.state),
                    out |-> out]
        /\ IF out.ok
           THEN /\ held' = Some(out.state)
                /\ inserted' = inserted \o embeddings.rows
                /\ oversize' = (oversize \/ FirstDim(embeddings) > max_memory_size)
                /\ calls' = calls + 1
           ELSE UNCHANGED <<held, inserted, oversize, calls>>
    /\ other' = NoOther
    /\ UNCHANGED <<num_neighbors, float_args, ou>>

Next == \E embeddings \in Embeddings, max_memory_size \in MemSizes :
            Call(embeddings, max_memory_size)

Spec == Init /\ [][Next]_vars

-----------------------------------------------------------------------------
(* The caller that builds an IntrinsicRewardState itself: a memory of the
   documented form and a next_memory_index of its choice, then one call. *)

GivenState(max_memory_size, d, K, next_memory_index) ==
    [memory |-> InitialState(max_memory_size, d, K).memory,
     next_memory_index |-> next_memory_index,
     distance_sum |-> 0,
     distance_count |-> 0]

InitGiven ==
    /\ num_neighbors \in Neighbors
    /\ float_args \in Hypers
    /\ held \in {None} \cup
          UNION {{Some(GivenState(m, d, num_neighbors, i)) :
                     d \in Dims, i \in 0..(2 * m)} : m \in MemSizes}
    /\ last = NoCall
    /\ inserted = <<>>
    /\ oversize = FALSE
    /\ calls = 0
    /\ ou = NoOU
    /\ other = NoOther

CallOnce(embeddings, max_memory_size) ==
    /\ calls = 0
    /\ Call(embeddings, max_memory_size)

NextGiven == \E embeddings \in Embeddings, max_memory_size \in MemSizes :
                 CallOnce(embeddings, max_memory_size)

SpecGiven == InitGiven /\ [][NextGiven]_vars

-----------------------------------------------------------------------------
(* Two actors that share one engine.  The first threads its state through at
   most two calls; the second calls on the state object the first's last
   call was given, with the engine's parameters and a batch of the same
   shape, and keeps what it gets. *)

ThreadedCall(embeddings, max_memory_size) ==
    /\ calls < 2
    /\ Call(embeddings, max_memory_size)

CallAgain(embeddings) ==
    /\ last.called /\ last.out.ok
    /\ ~other.called
    /\ embeddings.shape = last.shape
    /\ \E out \in episodic_memory_intrinsic_rewards(
                     embeddings, num_neighbors, float_args, last.prior_after,
                     last.max_memory_size) :
          other' = [called |-> TRUE, embeddings |-> embeddings, out |-> out]
    /\ UNCHANGED <<held, num_neighbors, float_args, last, inserted, oversize,
                   calls, ou>>

NextShared ==
    \/ \E embeddings \in Embeddings, max_memory_size \in MemSizes :
          ThreadedCall(embeddings, max_memory_size)
    \/ \E embeddings \in Embeddings : CallAgain(embeddings)

SpecShared == Init /\ [][NextShared]_vars

-----------------------------------------------------------------------------
(* The agent that perturbs an action: one call of
   add_ornstein_uhlenbeck_noise on vectors of equal shape, or on a vector
   an assertion rejects. *)

AddNoise(key, action, noise_tm1, damping, stddev) ==
    /\ ~ou.called
    /\ ou' = [called |-> TRUE, key |-> key, action |-> action,
              noise_tm1 |-> noise_tm1, damping |-> damping, stddev |-> stddev,
              out |-> add_ornstein_uhlenbeck_noise(key, action, noise_tm1,
                                                   damping, stddev)]
    /\ UNCHANGED <<held, num_neighbors, float_args, last, inserted, oversize,
                   calls, other>>

NextOU ==
    \E key \in Keys, damping \in Dampings, stddev \in Stddevs :
        \/ \E action \in Vectors(ActionValues), noise_tm1 \in Vectors(NoiseValues) :
              /\ Len(action.vals) = Len(noise_tm1.vals)
              /\ AddNoise(key, action, noise_tm1, damping, stddev)
        \/ \E action \in BadVectors :
              AddNoise(key, action, action, damping, stddev)

SpecOU == Init /\ [][NextOU]_vars

-----------------------------------------------------------------------------
(* What the claims speak of. *)

\* the last call returned a reward and a state
Returned == last.called /\ last.out.ok

\* of a call that returned: the state it queried, the state it returned,
\* its batch and the distances knn_query gave it
Queried == last.out.queried[1]
New == held[1]
BatchSize == last.shape[1]
Batch == SubSeq(inserted, Len(inserted) - BatchSize + 1, Len(inserted))
Distances == last.out.nn_distances_sq

Sentinel(row) == \E i \in 1..Len(row) : row[i] = Inf

AtMost(a, b) == IF a <= b THEN a ELSE b

-----------------------------------------------------------------------------
(* C1, C2: the cursor of the ring buffer. *)

\* C1: a call with M embeddings on a state whose next_memory_index is i
\* returns a state whose next_memory_index is (i + M) mod max_memory_size.
C1_NextIndexIsWrappedSum ==
    Returned =>
        New.next_memory_index =
            (Queried.next_memory_index + BatchSize) % last.max_memory_size

\* C2: in every returned state next_memory_index is in [0, max_memory_size).
C2_NextIndexInRange ==
    held # None =>
        /\ 0 <= New.next_memory_index
        /\ New.next_memory_index < Len(New.memory)

-----------------------------------------------------------------------------
(* C3: the ring buffer. *)

\* the number of the last embedding inserted, of n in all, that went to slot
\* j of a ring buffer of the given size (embeddings and slots count from 0)
LatestInSlot(j, n, size) ==
    CHOOSE i \in 0..(n - 1) : i % size = j /\ i + size >= n

\* C3: once max_memory_size or more embeddings were inserted, in batches no
\* larger than max_memory_size, slot j holds the latest inserted embedding
\* whose number is j mod max_memory_size, so the memory holds exactly the
\* most recent max_memory_size embeddings, and the cursor, wrapped, is the
\* number of embeddings inserted mod max_memory_size.
C3_RingBuffer ==
    (held # None /\ ~oversize /\ Len(inserted) >= Len(New.memory)) =>
        /\ \A j \in 0..(Len(New.memory) - 1) :
              New.memory[j + 1] =
                  inserted[LatestInSlot(j, Len(inserted), Len(New.memory)) + 1]
        /\ New.next_memory_index % Len(New.memory)
              = Len(inserted) % Len(New.memory)

\* the buffer wrapped in a second call and overwrote the first embedding
C3_Witness ==
    /\ held # None /\ ~oversize /\ calls = 2
    /\ Len(inserted) > Len(New.memory)
    /\ New.memory[1] # inserted[1]
    /\ BatchSize < Len(inserted)

-----------------------------------------------------------------------------
(* C4, C5: the running statistics. *)

\* C4: distance_count is num_neighbors times the number of embeddings
\* processed so far, and a call with M embeddings adds M * num_neighbors.
C4_DistanceCount ==
    /\ held # None => New.distance_count = num_neighbors * Len(inserted)
    /\ Returned =>
          New.distance_count =
              Queried.distance_count + BatchSize * num_neighbors

\* two calls of different batch sizes with more than one neighbor
C4_Witness ==
    /\ Returned /\ calls = 2 /\ num_neighbors > 1
    /\ BatchSize > 0 /\ Len(inserted) > BatchSize
    /\ Len(inserted) # 2 * BatchSize

\* C5: the distance_sum a call returns is never smaller than the one of the
\* state it was given: it is that sum plus the distances the call queried.
C5_DistanceSumMonotone ==
    Returned =>
        /\ New.distance_sum >= Queried.distance_sum
        /\ New.distance_sum =
              ExtAdd(Queried.distance_sum,
                     SumSeq([p \in 1..Len(Distances) |-> SumSeq(Distances[p])]))

\* a call on a state with a positive sum that added to it
C5_Witness ==
    /\ Returned /\ last.prior # None
    /\ Queried.distance_sum > 0
    /\ New.distance_sum > Queried.distance_sum

-----------------------------------------------------------------------------
(* C6: query first, insert afterwards. *)

\* C6: the distances of a call are those to the K nearest rows of the memory
\* as it was before the call: for every query and every threshold t, as many
\* of its K distances are at most t as there are rows of the pre-call memory
\* within t (K at most); the batch is in the returned memory only.
C6_QueryBeforeInsert ==
    Returned =>
        /\ Len(Distances) = BatchSize
        /\ \A p \in 1..BatchSize :
              LET pre == [j \in 1..Len(Queried.memory) |->
                             SqDist(Queried.memory[j], Batch[p])]
                  ts == {pre[j] : j \in 1..Len(pre)}
                          \cup {Distances[p][k] : k \in 1..Len(Distances[p])}
              IN  /\ Len(Distances[p]) = num_neighbors
                  /\ \A t \in ts :
                        Cardinality({k \in 1..num_neighbors : Distances[p][k] <= t})
                          = AtMost(num_neighbors,
                                   Cardinality({j \in 1..Len(pre) : pre[j] <= t}))
        /\ BatchSize > 0 /\ BatchSize <= Len(New.memory) =>
              \A p \in 1..BatchSize :
                  New.memory[((last.out.start_index + p - 1) % Len(New.memory)) + 1]
                      = Batch[p]

\* a batch holding the same embedding twice, neither a neighbor of the other
C6_Witness ==
    /\ Returned /\ BatchSize >= 2
    /\ \E p, q \in 1..BatchSize :
          /\ p # q /\ Batch[p] = Batch[q]
          /\ \A k \in 1..num_neighbors : Distances[p][k] > 0

-----------------------------------------------------------------------------
(* C7, C8: the state built when none is given, and its sentinel rows. *)

\* C7: a call with no prior state queries a state of max_memory_size rows,
\* the first num_neighbors the zero vector, the others the sentinel, with
\* next_memory_index, distance_sum and distance_count 0.
C7_FreshState ==
    (Returned /\ last.prior = None) =>
        /\ Len(Queried.memory) = last.max_memory_size
        /\ \A j \in 1..Len(Queried.memory) :
              /\ Len(Queried.memory[j]) = last.shape[2]
              /\ \A i \in 1..last.shape[2] :
                    Queried.memory[j][i] = IF j <= num_neighbors THEN 0 ELSE Inf
        /\ Queried.next_memory_index = 0
        /\ Queried.distance_sum = 0
        /\ Queried.distance_count = 0

\* a first call with fewer neighbors than memory rows
C7_Witness ==
    /\ Returned /\ last.prior = None
    /\ num_neighbors < last.max_memory_size
    /\ BatchSize > 0

\* C8: at each query at least num_neighbors memory rows are no sentinel, so
\* no distance a call returns or adds to distance_sum is infinite; the first
\* call's distances are those to the zero rows.
C8_NoSentinelNeighbor ==
    Returned =>
        /\ Cardinality({j \in 1..Len(Queried.memory) :
                           ~Sentinel(Queried.memory[j])}) >= num_neighbors
        /\ \A p \in 1..Len(Distances) :
              \A k \in 1..Len(Distances[p]) :
                  /\ Distances[p][k] # Inf
                  /\ last.prior = None =>
                        Distances[p][k] = SqDist(ZeroRow(last.shape[2]), Batch[p])
        /\ New.distance_sum # Inf

\* a query on a given state that still holds sentinel rows
C8_Witness ==
    /\ Returned /\ last.prior # None /\ BatchSize > 0
    /\ \E j \in 1..Len(Queried.memory) : Sentinel(Queried.memory[j])

-----------------------------------------------------------------------------
(* C9, C10: the calls that fail. *)

MemoryShape(memory) == <<Len(memory), Len(memory[1])>>

\* C9: a call on a prior state whose memory is not of shape
\* [max_memory_size, D] fails at the shape assertion: nothing is queried,
\* nothing returned, and the prior state stays as it was.
C9_ShapeMismatchFails ==
    (/\ last.called /\ last.prior # None /\ Len(last.shape) >= 1
     /\ MemoryShape(last.prior[1].memory)
           # <<last.max_memory_size, last.shape[Len(last.shape)]>>) =>
        /\ ~last.out.ok
        /\ last.out.error = "assert_shape"
        /\ last.out.queried = None
        /\ held = last.prior

\* a [M, D] batch on a state of another max_memory_size
C9_Witness ==
    /\ last.called /\ last.prior # None /\ Len(last.shape) = 2
    /\ Len(last.prior[1].memory) # last.max_memory_size
    /\ Len(last.prior[1].memory[1]) = last.shape[2]
    /\ ~last.out.ok

\* C10: a call whose embeddings are not rank-2 fails, with a prior state and
\* without: nothing is returned and the caller's state stays as it was.
C10_NotRank2Fails ==
    (last.called /\ Len(last.shape) # 2) =>
        /\ ~last.out.ok
        /\ held = last.prior

\* a vector of the memory's dimension on a given state: only the query
\* rejects it
C10_Witness ==
    /\ last.called /\ last.prior # None /\ Len(last.shape) = 1
    /\ Len(last.prior[1].memory[1]) = last.shape[1]
    /\ Len(last.prior[1].memory) = last.max_memory_size
    /\ ~last.out.ok

-----------------------------------------------------------------------------
(* C12: the reward. *)

Zero == <<0, 1>>

\* sqrt(similarity.sqrt_of) + similarity.plus is a real number above 0
PositiveReal(similarity) ==
    /\ Finite(similarity.sqrt_of) /\ Finite(similarity.plus)
    /\ ~FLess(similarity.sqrt_of, Zero)
    /\ ~FLess(similarity.plus, Zero)
    /\ FLess(Zero, similarity.sqrt_of) \/ FLess(Zero, similarity.plus)

\* sqrt(similarity.sqrt_of) + similarity.plus > bound, of a PositiveReal
Exceeds(similarity, bound) ==
    \/ FLess(bound, similarity.plus)
    \/ FLess(FMul(FSub(bound, similarity.plus), FSub(bound, similarity.plus)),
             similarity.sqrt_of)

\* C12: the reward of every embedding is finite and not negative; it is zero
\* when the embedding's similarity exceeds max_similarity, and reward_scale
\* over the similarity otherwise.
C12_RewardBounded ==
    Returned =>
        /\ Len(last.out.reward) = BatchSize
        /\ \A p \in 1..BatchSize :
              LET r == last.out.reward[p]
              IN  /\ PositiveReal(r.over)
                  /\ Finite(r.scale) /\ ~FLess(r.scale, Zero)
                  /\ r.scale = float_args.reward_scale
                  /\ r.zero <=> Exceeds(r.over, float_args.max_similarity)

\* one batch with a reward set to zero and a reward that is not
C12_Witness ==
    /\ Returned
    /\ \E p, q \in 1..BatchSize :
          last.out.reward[p].zero /\ ~last.out.reward[q].zero

-----------------------------------------------------------------------------
(* C17, C18: the mean that normalizes the distances. *)

Total(distances) ==
    SumSeq([p \in 1..Len(distances) |-> SumSeq(distances[p])])

\* the statistics of the state a call was given: 0 when none was given
GivenSum == IF last.prior = None THEN 0 ELSE last.prior[1].distance_sum
GivenCount == IF last.prior = None THEN 0 ELSE last.prior[1].distance_count

\* C17: the mean distance of a call is the sum of the given state plus the
\* call's M * K distances, over the count of the given state plus M * K:
\* the statistics hold the batch before the division and are carried from
\* call to call as they are.
C17_PostUpdateLifetimeMean ==
    (Returned /\ BatchSize >= 1) =>
        /\ Finite(last.out.mean_distance)
        /\ last.out.mean_distance[1] * (GivenCount + BatchSize * num_neighbors)
              = (GivenSum + Total(Distances)) * last.out.mean_distance[2]

\* a call on a state with a positive sum, whose mean is neither the mean of
\* the given state nor the mean of the batch alone
C17_Witness ==
    /\ Returned /\ BatchSize >= 1 /\ last.prior # None
    /\ GivenSum > 0
    /\ last.out.mean_distance # Frac(GivenSum, GivenCount)
    /\ last.out.mean_distance
          # Frac(Total(Distances), BatchSize * num_neighbors)

\* C18: when a call with M >= 1 embeddings and K >= 1 neighbors divides
\* distance_sum by distance_count, the count is at least 1.
C18_DivisorPositive ==
    (Returned /\ BatchSize >= 1 /\ num_neighbors >= 1) =>
        /\ last.out.divisor >= 1
        /\ last.out.divisor = New.distance_count

\* the very first call: no prior state, a count of 0 before the batch
C18_Witness ==
    /\ Returned /\ BatchSize >= 1 /\ last.prior = None
    /\ Queried.distance_count = 0

-----------------------------------------------------------------------------
(* C13: the shape of the memory. *)

\* C13: the memory a call returns has max_memory_size rows of dimension D;
\* the call writes its batch to slots numbered in [0, max_memory_size) and
\* leaves every other slot as it was, whatever next_memory_index it is given.
C13_MemoryShapeKept ==
    Returned =>
        /\ Len(New.memory) = last.max_memory_size
        /\ \A j \in 1..Len(New.memory) : Len(New.memory[j]) = last.shape[2]
        /\ Len(last.out.indices) = BatchSize
        /\ \A p \in 1..BatchSize :
              /\ 0 <= last.out.indices[p]
              /\ last.out.indices[p] < last.max_memory_size
        /\ \A j \in 1..Len(New.memory) :
              LET written == {p \in 1..BatchSize : last.out.indices[p] = j - 1}
              IN  IF written = {} THEN New.memory[j] = Queried.memory[j]
                  ELSE \E p \in written : New.memory[j] = Batch[p]

\* a call on a state whose next_memory_index is max_memory_size or more
C13_Witness ==
    /\ Returned /\ BatchSize >= 1 /\ last.prior # None
    /\ last.prior[1].next_memory_index >= last.max_memory_size

-----------------------------------------------------------------------------
(* C15: Ornstein-Uhlenbeck noise that vanishes. *)

\* C15: with damping = 1 and stddev = 0 add_ornstein_uhlenbeck_noise returns
\* action, whatever the key and the previous noise.
C15_NoNoiseReturnsAction ==
    (ou.called /\ ou.out.ok /\ ou.damping = <<1, 1>> /\ ou.stddev = <<0, 1>>) =>
        ou.out.value = ou.action.vals

\* such a call with a previous noise and a sample that are not zero
C15_Witness ==
    /\ ou.called /\ ou.out.ok
    /\ ou.damping = <<1, 1>> /\ ou.stddev = <<0, 1>>
    /\ \E i \in 1..Len(ou.action.vals) :
          /\ ou.noise_tm1.vals[i] # <<0, 1>>
          /\ Normal(ou.key, Len(ou.action.vals))[i] # <<0, 1>>

-----------------------------------------------------------------------------
(* C16: two calls on one prior state. *)

\* the second actor's call returned a reward and a state
Again == Returned /\ other.called /\ other.out.ok

\* the state both calls queried
Shared == last.out.queried[1]

\* the memory is the shared state's but for the slots of the indices, which
\* hold rows of the batch
OnlyOwnBatch(memory, indices, rows) ==
    \A j \in 1..Len(memory) :
        LET cands == {p \in 1..Len(rows) : indices[p] = j - 1}
        IN  IF cands = {} THEN memory[j] = Shared.memory[j]
            ELSE \E p \in cands : memory[j] = rows[p]

Holds(memory, row) == \E j \in 1..Len(memory) : memory[j] = row

\* C16: of two calls on the same state S each returns S with its own batch
\* only and distance_count = S.distance_count + M * K; a second call on the
\* state the first returned returns a state with both batches counted and, as
\* far as the memory has room, stored.
C16_LostUpdate ==
    /\ Again =>
          /\ OnlyOwnBatch(last.out.state.memory, last.out.indices, Batch)
          /\ OnlyOwnBatch(other.out.state.memory, other.out.indices,
                          other.embeddings.rows)
          /\ last.out.state.distance_count =
                Shared.distance_count + BatchSize * num_neighbors
          /\ other.out.state.distance_count =
                Shared.distance_count
                  + Len(other.embeddings.rows) * num_neighbors
    /\ (Returned /\ calls = 2 /\ ~oversize) =>
          /\ New.distance_count = Len(inserted) * num_neighbors
          /\ \A i \in 1..Len(inserted) :
                i + Len(New.memory) > Len(inserted) =>
                    New.memory[((i - 1) % Len(New.memory)) + 1] = inserted[i]

\* two threaded calls, then a call on the state the second was given: each of
\* the last two states lacks a row of the other's batch
C16_Witness ==
    /\ Again /\ calls = 2 /\ ~oversize
    /\ \E p \in 1..BatchSize :
          ~Holds(other.out.state.memory, Batch[p])
    /\ \E p \in 1..Len(other.embeddings.rows) :
          ~Holds(New.memory, other.embeddings.rows[p])
    /\ \A i \in 1..Len(inserted) : Holds(New.memory, inserted[i])

====
